---- MODULE Spec2Model ----
(***************************************************************************)
(* Model of drizzlepac/hlautils/pipeline_poller_utils.py.                  *)
(*                                                                         *)
(* Python strings are sequences of one-character strings, so that          *)
(* lower(), upper(), find(), split(), startswith(), endswith(), slicing    *)
(* and join() are computed character by character.  Python lists are       *)
(* sequences; Python dicts (insertion ordered) are sequences of            *)
(* <<key, value>> pairs.  An exception that ends a call is recorded by     *)
(* its name.                                                               *)
(***************************************************************************)
EXTENDS Integers, Sequences, FiniteSets, TLC

\* ------------------------------------------------------------------------
\* Bounds of the model
\* ------------------------------------------------------------------------
MaxRows == 3
MaxSubFilters == 2

\* ------------------------------------------------------------------------
\* Python string and list primitives
\* ------------------------------------------------------------------------
LowerChars == <<"a","b","c","d","e","f","g","h","i","j","k","l","m","n","o","p","q","r","s","t","u","v","w","x","y","z">>
UpperChars == <<"A","B","C","D","E","F","G","H","I","J","K","L","M","N","O","P","Q","R","S","T","U","V","W","X","Y","Z">>
DigitChars == <<"0","1","2","3","4","5","6","7","8","9">>

Min(a, b) == IF a < b THEN a ELSE b
Max(a, b) == IF a > b THEN a ELSE b

\* c.lower() and c.upper() of one character: letters map to the other
\* case, every other character to itself
UpperSet == { UpperChars[k] : k \in 1..26 }
LowerSet == { LowerChars[k] : k \in 1..26 }
ToLower == [c \in UpperSet |-> LowerChars[CHOOSE k \in 1..26 : UpperChars[k] = c]]
ToUpper == [c \in LowerSet |-> UpperChars[CHOOSE k \in 1..26 : LowerChars[k] = c]]

lower_char(c) == IF c \in UpperSet THEN ToLower[c] ELSE c
upper_char(c) == IF c \in LowerSet THEN ToUpper[c] ELSE c

lower(s) == [k \in 1..Len(s) |-> lower_char(s[k])]
upper(s) == [k \in 1..Len(s) |-> upper_char(s[k])]

\* s[start:stop] of Python, 0-based, a negative bound counting from the end
\* and both bounds clipped to the sequence
PyIndex(n, k) == IF k < 0 THEN Max(n + k, 0) ELSE Min(k, n)
PySlice(s, start, stop) ==
    SubSeq(s, PyIndex(Len(s), start) + 1, PyIndex(Len(s), stop))

\* s.find(ch): 0-based position of the first occurrence, -1 when absent
find(s, ch) ==
    IF \E k \in 1..Len(s) : s[k] = ch
    THEN (CHOOSE k \in 1..Len(s) : s[k] = ch /\ \A j \in 1..(k-1) : s[j] # ch) - 1
    ELSE -1

startswith(s, p) == Len(p) <= Len(s) /\ SubSeq(s, 1, Len(p)) = p
endswith(s, p) == Len(p) <= Len(s) /\ SubSeq(s, Len(s) - Len(p) + 1, Len(s)) = p

\* sub in s
contains(s, sub) ==
    \E k \in 0..(Len(s) - Len(sub)) : SubSeq(s, k + 1, k + Len(sub)) = sub

\* s.split(sep) for a one-character sep: always at least one field, empty
\* fields are kept
RECURSIVE split(_, _)
split(s, sep) ==
    LET p == find(s, sep)
    IN  IF p = -1 THEN <<s>>
        ELSE <<SubSeq(s, 1, p)>> \o split(SubSeq(s, p + 2, Len(s)), sep)

\* s.split() without argument: fields are the maximal runs of
\* non-whitespace characters, empty fields are dropped
split_ws(s) == SelectSeq(split(s, " "), LAMBDA f : f # <<>>)

\* delimiter.join(list)
RECURSIVE join(_, _)
join(delimiter, list) ==
    IF list = <<>> THEN <<>>
    ELSE IF Len(list) = 1 THEN list[1]
    ELSE list[1] \o delimiter \o join(delimiter, Tail(list))

reverse(list) == [k \in 1..Len(list) |-> list[Len(list) + 1 - k]]

\* str(n) for an integer n
RECURSIVE str_nat(_)
str_nat(n) ==
    IF n < 10 THEN <<DigitChars[n + 1]>>
    ELSE str_nat(n \div 10) \o <<DigitChars[(n % 10) + 1]>>
str(n) == IF n < 0 THEN <<"-">> \o str_nat(0 - n) ELSE str_nat(n)

\* "0" * n
zeros(n) == [k \in 1..Max(n, 0) |-> "0"]

\* ------------------------------------------------------------------------
\* determine_filter_name
\* ------------------------------------------------------------------------
S_clear == <<"c","l","e","a","r">>
S_pol == <<"p","o","l">>

\* faulty variant: rejoins with the separator the input was split on
delimiter_semicolon == <<";">>
\* line 397
delimiter == <<"-">>

determine_filter_name(raw_filter) ==
    LET filter_list == split(lower(raw_filter), ";")
        output_filter_list ==
            SelectSeq(filter_list, LAMBDA filt : ~contains(filt, S_clear))
    IN  IF output_filter_list = <<>> THEN S_clear
        ELSE IF startswith(output_filter_list[1], S_pol)
             THEN join(delimiter, reverse(output_filter_list))
             ELSE join(delimiter, output_filter_list)

\* ------------------------------------------------------------------------
\* Insertion-ordered dicts: sequences of <<key, value>> pairs
\* ------------------------------------------------------------------------
HasKey(d, k) == \E n \in 1..Len(d) : d[n][1] = k
KeyPos(d, k) == CHOOSE n \in 1..Len(d) : d[n][1] = k
Get(d, k) == d[KeyPos(d, k)][2]
\* faulty variant: a new key goes to the front
Put_prepend(d, k, v) ==
    IF HasKey(d, k) THEN [d EXCEPT ![KeyPos(d, k)] = <<k, v>>]
    ELSE <<<<k, v>>>> \o d
\* d[k] = v: replaces the value of an existing key in place, appends a new key
Put(d, k, v) ==
    IF HasKey(d, k) THEN [d EXCEPT ![KeyPos(d, k)] = <<k, v>>]
    ELSE Append(d, <<k, v>>)

\* ------------------------------------------------------------------------
\* Module constants
\* ------------------------------------------------------------------------
SEP_STR == <<"s","i","n","g","l","e"," ","e","x","p","o","s","u","r","e"," ","p","r","o","d","u","c","t"," ">>
FP_STR == <<"f","i","l","t","e","r"," ","p","r","o","d","u","c","t"," ">>
TDP_STR == <<"t","o","t","a","l"," ","d","e","t","e","c","t","i","o","n"," ","p","r","o","d","u","c","t"," ">>

INSTRUMENT_DICT ==
    << <<"i", <<"W","F","C","3">> >>, <<"j", <<"A","C","S">> >>,
       <<"o", <<"S","T","I","S">> >>, <<"u", <<"W","F","P","C","2">> >>,
       <<"x", <<"F","O","C">> >>, <<"w", <<"W","F","P","C">> >> >>

\* "{:02d}".format(n): sign-aware zero padding to width 2
format_02d(n) ==
    IF n < 0 THEN <<"-">> \o zeros(1 - Len(str_nat(0 - n))) \o str_nat(0 - n)
    ELSE zeros(2 - Len(str_nat(n))) \o str_nat(n)

\* ------------------------------------------------------------------------
\* create_row_info
\* ------------------------------------------------------------------------
create_row_info(row) ==
    LET info_list == << str(row.proposal_id), format_02d(row.obset_id),
                        row.instrument, row.detector, row.filters,
                        PySlice(row.filename, 0, find(row.filename, "_")) >>
    IN  << join(<<" ">>, [k \in 1..Len(info_list) |-> upper(info_list[k])]),
           row.filename >>

\* ------------------------------------------------------------------------
\* One iteration of the loop of build_obset_tree: the tree after the row
\* ------------------------------------------------------------------------
\* faulty variant: the filter level is keyed by the raw filter string
build_row_raw_key(obset_tree, row) ==
    LET det == row.detector
        filt == row.filters
        entry == create_row_info([row EXCEPT !.filters = determine_filter_name(@)])
    IN  IF ~HasKey(obset_tree, det)
        THEN Put(obset_tree, det, << <<filt, <<entry>> >> >>)
        ELSE LET det_node == Get(obset_tree, det)
             IN  IF ~HasKey(det_node, filt)
                 THEN Put(obset_tree, det, Put(det_node, filt, <<entry>>))
                 ELSE Put(obset_tree, det,
                          Put(det_node, filt, Append(Get(det_node, filt), entry)))
\* faulty variant: a further exposure replaces the list of its filter
build_row_overwrite(obset_tree, row) ==
    LET det == row.detector
        filt == determine_filter_name(row.filters)
        entry == create_row_info([row EXCEPT !.filters = filt])
    IN  IF ~HasKey(obset_tree, det)
        THEN Put(obset_tree, det, << <<filt, <<entry>> >> >>)
        ELSE LET det_node == Get(obset_tree, det)
             IN  Put(obset_tree, det, Put(det_node, filt, <<entry>>))
build_row(obset_tree, row) ==
    LET det == row.detector
        filt == determine_filter_name(row.filters)
        entry == create_row_info([row EXCEPT !.filters = filt])
    IN  IF ~HasKey(obset_tree, det)
        THEN Put(obset_tree, det, << <<filt, <<entry>> >> >>)
        ELSE LET det_node == Get(obset_tree, det)
             IN  IF ~HasKey(det_node, filt)
                 THEN Put(obset_tree, det, Put(det_node, filt, <<entry>>))
                 ELSE Put(obset_tree, det,
                          Put(det_node, filt, Append(Get(det_node, filt), entry)))

\* ------------------------------------------------------------------------
\* parse_obset_tree: filetype detection and the three info strings
\* ------------------------------------------------------------------------
S_flt == <<"f","l","t">>
S_drz == <<"d","r","z">>
S_drc == <<"d","r","c">>

\* lines 146-148: filetype from characters 10..12 of the exposure filename
detect_filetype(fname) ==
    IF endswith(lower(PySlice(fname, 10, 13)), S_flt) THEN S_drz ELSE S_drc

\* faulty variant: compares the counter as it was before line 135
detection_fires_after_increment(det_indx_, prev_det_indx_) ==
    det_indx_ - 1 # prev_det_indx_
\* faulty variant: detects on every exposure
detection_fires_always(det_indx_, prev_det_indx_) == TRUE
\* line 145: the detection fires when the detector counter moved
detection_fires(det_indx_, prev_det_indx_) == det_indx_ # prev_det_indx_

sep_info_of(info, filetype_) == lower(info \o <<" ">> \o filetype_)
fp_info_of(info, filetype_) ==
    lower(join(<<" ">>, split_ws(info)) \o <<" ">> \o filetype_)
\* faulty variant: drops one field only, the filter field stays
tdp_info_of_keep_filter(info, filetype_) ==
    LET fields == split_ws(info)
    IN  lower(join(<<" ">>, PySlice(fields, 0, -1)) \o <<" ">>
              \o fields[Len(fields)] \o <<" ">> \o filetype_)
tdp_info_of(info, filetype_) ==
    LET fields == split_ws(info)
    IN  lower(join(<<" ">>, PySlice(fields, 0, -2)) \o <<" ">>
              \o fields[Len(fields)] \o <<" ">> \o filetype_)

\* ------------------------------------------------------------------------
\* Filename generators.  obs_info is the list of space-split fields; a
\* result is [status, generator, files]: status "ok" with the returned
\* mapping as an ordered sequence of <<part, filename>> pairs, or the
\* exception raised, with no mapping.
\* ------------------------------------------------------------------------
S_hst == <<"h","s","t","_">>
S_hst_mos == <<"h","s","t","_","m","o","s">>
S_total == <<"_","t","o","t","a","l","_">>
S_fits == <<".","f","i","t","s">>
S_point_cat == <<"_","p","o","i","n","t","-","c","a","t",".","e","c","s","v">>
S_segment_cat == <<"_","s","e","g","m","e","n","t","-","c","a","t",".","e","c","s","v">>

Raised(exc, gen) == [status |-> exc, generator |-> gen, files |-> <<>>]
Returned(gen, dict) == [status |-> "ok", generator |-> gen, files |-> dict]

\* obs_info[k] (0-based) exists
Indexable(obs_info, k) == k < Len(obs_info)

single_exposure_product_filename_generator(obs_info) ==
    IF ~(Indexable(obs_info, 5) /\ Indexable(obs_info, 6))
    THEN Raised("IndexError", "single_exposure")
    ELSE LET basename == S_hst \o join(<<"_">>, PySlice(obs_info, 0, 5)) \o <<"_">>
                         \o PySlice(obs_info[6], 0, 8) \o <<"_">> \o obs_info[7]
         IN  Returned("single_exposure", << <<"image", basename \o S_fits>> >>)

filter_product_filename_generator(obs_info) ==
    IF ~(Indexable(obs_info, 5) /\ Indexable(obs_info, 6))
    THEN Raised("IndexError", "filter")
    ELSE LET basename == S_hst \o join(<<"_">>, PySlice(obs_info, 0, 5)) \o <<"_">>
                         \o PySlice(obs_info[6], 0, 6)
         IN  Returned("filter",
                 << <<"image", basename \o <<"_">> \o obs_info[7] \o S_fits>>,
                    <<"point source catalog", basename \o S_point_cat>>,
                    <<"segment source catalog", basename \o S_segment_cat>> >>)

total_detection_product_filename_generator(obs_info) ==
    IF ~(Indexable(obs_info, 4) /\ Indexable(obs_info, 5))
    THEN Raised("IndexError", "total_detection")
    ELSE LET basename == S_hst \o join(<<"_">>, PySlice(obs_info, 0, 4)) \o S_total
                         \o PySlice(obs_info[5], 0, 6)
         IN  Returned("total_detection",
                 << <<"image", basename \o <<"_">> \o obs_info[6] \o S_fits>>,
                    <<"point source catalog", basename \o S_point_cat>>,
                    <<"segment source catalog", basename \o S_segment_cat>> >>)

\* line 346: position (0-based) of the filetype field read by the
\* multivisit mosaic generator; the docstring (line 341) names position 4
mosaic_filetype_index_documented == 4
mosaic_filetype_index == 5

multivisit_mosaic_product_filename_generator(obs_info) ==
    IF ~Indexable(obs_info, mosaic_filetype_index)
    THEN Raised("IndexError", "multivisit_mosaic")
    ELSE LET basename == S_hst_mos \o join(<<"_">>, PySlice(obs_info, 0, 4))
         IN  Returned("multivisit_mosaic",
                 << <<"image", basename \o <<" ">>
                               \o obs_info[mosaic_filetype_index + 1] \o S_fits>>,
                    <<"point source catalog", basename \o S_point_cat>>,
                    <<"segment source catalog", basename \o S_segment_cat>> >>)

\* ------------------------------------------------------------------------
\* run_generator
\* ------------------------------------------------------------------------
S_single_exposure_product == <<"s","i","n","g","l","e"," ","e","x","p","o","s","u","r","e"," ","p","r","o","d","u","c","t">>
S_filter_product == <<"f","i","l","t","e","r"," ","p","r","o","d","u","c","t">>
S_total_detection_product == <<"t","o","t","a","l"," ","d","e","t","e","c","t","i","o","n"," ","p","r","o","d","u","c","t">>
S_multivisit_mosaic_product == <<"m","u","l","t","i","v","i","s","i","t"," ","m","o","s","a","i","c"," ","p","r","o","d","u","c","t">>

\* the keys of category_generator_mapping, in insertion order
category_generator_mapping ==
    << S_single_exposure_product, S_filter_product,
       S_total_detection_product, S_multivisit_mosaic_product >>

\* faulty variant: the prefix test ignores case
category_key_of_nocase(product_category) ==
    LET hits == SelectSeq(category_generator_mapping,
                          LAMBDA ikey : startswith(lower(product_category), ikey))
    IN  IF hits = <<>> THEN <<>> ELSE hits[1]
\* lines 198-203: the first registered phrase that is a prefix of the
\* category, "" when there is none (generator_name is then left unbound)
category_key_of(product_category) ==
    LET hits == SelectSeq(category_generator_mapping,
                          LAMBDA ikey : startswith(product_category, ikey))
    IN  IF hits = <<>> THEN <<>> ELSE hits[1]

\* line 214 with generator_name unbound
unbound_generator_call(fields) == Raised("UnboundLocalError", "none")

run_generator(product_category, obs_info) ==
    LET category_key == category_key_of(product_category)
        fields == split(obs_info, " ")
        padded == IF category_key # S_multivisit_mosaic_product
                  THEN [fields EXCEPT ![1] = zeros(5 - Len(fields[1])) \o fields[1]]
                  ELSE fields
    IN  IF category_key = S_single_exposure_product
             THEN single_exposure_product_filename_generator(padded)
        ELSE IF category_key = S_filter_product
             THEN filter_product_filename_generator(padded)
        ELSE IF category_key = S_total_detection_product
             THEN total_detection_product_filename_generator(padded)
        ELSE IF category_key = S_multivisit_mosaic_product
             THEN multivisit_mosaic_product_filename_generator(padded)
        ELSE unbound_generator_call(padded)

\* ------------------------------------------------------------------------
\* Inputs
\* ------------------------------------------------------------------------
\* manifest exposures: filename, proposal_id, obset_id (the columns
\* program_id, exptime and pathname are never read)
Exposures ==
    { [filename |-> <<"i","a","1","s","7","0","j","t","q","_","f","l","t",".","f","i","t","s">>,
       proposal_id |-> 11150, obset_id |-> 70],
      [filename |-> <<"i","a","1","s","7","0","j","w","q","_","f","l","c",".","f","i","t","s">>,
       proposal_id |-> 9999, obset_id |-> 7],
      [filename |-> <<"j","a","1","s","7","0","j","x","q","_","F","L","T",".","f","i","t","s">>,
       proposal_id |-> 11150, obset_id |-> 70],
      [filename |-> <<"z","b","_","f","l","t",".","f","i","t","s">>,
       proposal_id |-> 9999, obset_id |-> 7] }

\* the detector and raw filter columns of a row
D_IR == <<"I","R">>
D_UVIS == <<"U","V","I","S">>
F_F606W_POL60 == <<"F","6","0","6","W",";","P","O","L","6","0">>
F_POL60_F606W == <<"P","O","L","6","0",";","F","6","0","6","W">>
F_CLEAR1L_ == <<"C","L","E","A","R","1","L",";">>

RowKinds ==
    { [detector |-> D_IR, filters |-> F_F606W_POL60],
      [detector |-> D_IR, filters |-> F_POL60_F606W],
      [detector |-> D_IR, filters |-> F_CLEAR1L_],
      [detector |-> D_UVIS, filters |-> F_F606W_POL60] }

\* manifests of at most MaxRows rows with unique filenames
Manifests ==
    UNION { { [k \in 1..n |-> [filename |-> e[k].filename,
                               proposal_id |-> e[k].proposal_id,
                               obset_id |-> e[k].obset_id,
                               filters |-> r[k].filters,
                               detector |-> r[k].detector]] :
              e \in { x \in [1..n -> Exposures] :
                        \A a, b \in 1..n : a # b => x[a] # x[b] },
              r \in [1..n -> RowKinds] } :
            n \in 0..MaxRows }

\* sub-filter names given to determine_filter_name
SubFilters ==
    { <<>>, <<"c","l","e","a","r">>, <<"C","L","E","A","R","1","L">>,
      <<"P","O","L","6","0">>, <<"p","o","l","0">>, <<"F","6","0","6","W">>,
      <<"f","1","1","0","w">>, <<"c","l","e">>, <<"a","r">> }

RawFilterInputs ==
    UNION { { join(<<";">>, l) : l \in [1..n -> SubFilters] } : n \in 1..MaxSubFilters }

\* categories and info strings given directly to run_generator
Categories ==
    { k \o sfx : k \in { S_single_exposure_product, S_filter_product,
                         S_total_detection_product, S_multivisit_mosaic_product },
                 sfx \in { <<>>, <<" ","0","0">> } }
    \cup { <<"b","o","g","u","s"," ","p","r","o","d","u","c","t"," ","0","0">>,
           <<"f","i","l","t","e","r">>, <<>>,
           <<"F","i","l","t","e","r"," ","p","r","o","d","u","c","t">> }

InfoFields ==
    << <<"1">>, <<"a","c","s">>, <<"w","f","c">>, <<"f","6","0","6","w">>,
       <<"d","r","z">>, <<"x">>, <<"d","r","c">> >>

InfoStrings ==
    { join(<<" ">>, SubSeq(InfoFields, 1, n)) : n \in 0..Len(InfoFields) }
    \cup { join(<<" ">>, << <<"9","9","9","9">> >> \o SubSeq(InfoFields, 2, n)) : n \in 1..Len(InfoFields) }

\* ------------------------------------------------------------------------
\* State
\* ------------------------------------------------------------------------
VARIABLES
    pc,                 \* position of the call in progress
    results,            \* the manifest handed to interpret_obset_input
    obset_table,        \* the table, with its instrument column
    error,              \* the exception that ended the call, or "none"
    row_i,              \* build_obset_tree: position of the row loop
    obset_tree,         \* detector -> (filter -> [(row_info, filename)])
    obset_products,     \* parse_obset_tree: key -> [info, files]
    prev_det_indx, det_indx, filt_indx, sep_indx, filetype,
    di, fi, ei,         \* positions of the three nested loops
    tdp, fprod,         \* keys of the current detector and filter entries
    product_filenames,  \* <<key, result of run_generator(key, info)>>
    product_category, obs_info, product_filename_dict,
    raw_filter, filter_name, filter_name_again

pipeline_vars == << results, obset_table, error, row_i, obset_tree,
                    obset_products, prev_det_indx, det_indx, filt_indx,
                    sep_indx, filetype, di, fi, ei, tdp, fprod,
                    product_filenames >>
generator_vars == << product_category, obs_info, product_filename_dict >>
filter_vars == << raw_filter, filter_name, filter_name_again >>
vars == << pc, pipeline_vars, generator_vars, filter_vars >>

NoResult == [status |-> "none", generator |-> "none", files |-> <<>>]
NoProduct == [info |-> <<>>, files |-> <<>>]

PipelineFresh ==
    /\ obset_table = <<>> /\ error = "none" /\ row_i = 1
    /\ obset_tree = <<>> /\ obset_products = <<>>
    /\ prev_det_indx = 0 /\ det_indx = 0 /\ filt_indx = 0 /\ sep_indx = 0
    /\ filetype = <<>> /\ di = 1 /\ fi = 1 /\ ei = 1
    /\ tdp = <<>> /\ fprod = <<>> /\ product_filenames = <<>>
GeneratorIdle ==
    product_category = <<>> /\ obs_info = <<>> /\ product_filename_dict = NoResult
FilterIdle ==
    raw_filter = <<>> /\ filter_name = <<>> /\ filter_name_again = <<>>

\* ------------------------------------------------------------------------
\* interpret_obset_input: the instrument lookup on the first row
\* ------------------------------------------------------------------------
\* faulty variant: an unknown first character falls back to the first instrument
instrument_lookup_default(table) ==
    IF Len(table) = 0 \/ Len(table[1].filename) = 0
    THEN [status |-> "IndexError", instr |-> <<>>]
    ELSE IF ~HasKey(INSTRUMENT_DICT, table[1].filename[1])
    THEN [status |-> "ok", instr |-> INSTRUMENT_DICT[1][2]]
    ELSE [status |-> "ok", instr |-> Get(INSTRUMENT_DICT, table[1].filename[1])]
\* line 54: INSTRUMENT_DICT[obset_table['filename'][0][0]]
instrument_lookup(table) ==
    IF Len(table) = 0 \/ Len(table[1].filename) = 0
    THEN [status |-> "IndexError", instr |-> <<>>]
    ELSE IF ~HasKey(INSTRUMENT_DICT, table[1].filename[1])
    THEN [status |-> "KeyError", instr |-> <<>>]
    ELSE [status |-> "ok", instr |-> Get(INSTRUMENT_DICT, table[1].filename[1])]

Init ==
    /\ pc = "start"
    /\ results \in Manifests
    /\ PipelineFresh /\ GeneratorIdle /\ FilterIdle

Interpret ==
    /\ pc = "start"
    /\ IF instrument_lookup(results).status # "ok"
       THEN /\ error' = instrument_lookup(results).status
            /\ pc' = "failed"
            /\ UNCHANGED obset_table
       ELSE LET instr == instrument_lookup(results).instr
            IN  /\ obset_table' =
                     [k \in 1..Len(results) |->
                        [filename |-> results[k].filename,
                         proposal_id |-> results[k].proposal_id,
                         obset_id |-> results[k].obset_id,
                         filters |-> results[k].filters,
                         detector |-> results[k].detector,
                         instrument |-> instr]]
                /\ pc' = "build"
                /\ UNCHANGED error
    /\ UNCHANGED << results, row_i, obset_tree, obset_products, prev_det_indx,
                    det_indx, filt_indx, sep_indx, filetype, di, fi, ei, tdp,
                    fprod, product_filenames, generator_vars, filter_vars >>

\* build_obset_tree: one row of the loop, or its return into
\* parse_obset_tree (lines 119-129)
BuildRow ==
    /\ pc = "build"
    /\ IF row_i <= Len(obset_table)
       THEN /\ obset_tree' = build_row(obset_tree, obset_table[row_i])
            /\ obset_table' = [obset_table EXCEPT ![row_i].filters =
                                  determine_filter_name(@)]
            /\ row_i' = row_i + 1
            /\ UNCHANGED << pc, obset_products, prev_det_indx, det_indx,
                            filt_indx, sep_indx, filetype, di >>
       ELSE /\ obset_products' = <<>>
            /\ prev_det_indx' = 0 /\ det_indx' = 0 /\ filt_indx' = 0
            /\ sep_indx' = 0 /\ filetype' = <<>>
            /\ di' = 1
            /\ pc' = "det_loop"
            /\ UNCHANGED << obset_tree, obset_table, row_i >>
    /\ UNCHANGED << results, error, fi, ei, tdp, fprod,
                    product_filenames, generator_vars, filter_vars >>

\* parse_obset_tree, lines 132-135: next detector, or return
ParseDetector ==
    /\ pc = "det_loop"
    /\ IF di <= Len(obset_tree)
       THEN /\ tdp' = TDP_STR \o format_02d(det_indx)
            /\ obset_products' = Put(obset_products, tdp', NoProduct)
            /\ det_indx' = det_indx + 1
            /\ fi' = 1
            /\ pc' = "filt_loop"
       ELSE /\ pc' = "parsed"
            /\ UNCHANGED << tdp, obset_products, det_indx, fi >>
    /\ UNCHANGED << results, obset_table, error, row_i, obset_tree,
                    prev_det_indx, filt_indx, sep_indx, filetype, di, ei,
                    fprod, product_filenames, generator_vars, filter_vars >>

\* lines 137-141: next filter of the detector, or back to the detector loop
ParseFilter ==
    /\ pc = "filt_loop"
    /\ IF fi <= Len(obset_tree[di][2])
       THEN /\ fprod' = FP_STR \o format_02d(filt_indx)
            /\ obset_products' = Put(obset_products, fprod', NoProduct)
            /\ filt_indx' = filt_indx + 1
            /\ ei' = 1
            /\ pc' = "exp_loop"
            /\ UNCHANGED di
       ELSE /\ di' = di + 1
            /\ pc' = "det_loop"
            /\ UNCHANGED << fprod, obset_products, filt_indx, ei >>
    /\ UNCHANGED << results, obset_table, error, row_i, obset_tree,
                    prev_det_indx, det_indx, sep_indx, filetype, fi, tdp,
                    product_filenames, generator_vars, filter_vars >>

\* obset_products[key]['files'].append(fname)
AppendFile(products, key, fname) ==
    Put(products, key, [Get(products, key) EXCEPT !.files = Append(@, fname)])
\* if not obset_products[key]['info']: obset_products[key]['info'] = info
InitInfo(products, key, info) ==
    IF Get(products, key).info = <<>>
    THEN Put(products, key, [Get(products, key) EXCEPT !.info = info])
    ELSE products

\* lines 143-168: next exposure of the filter, or back to the filter loop
ParseExposure ==
    /\ pc = "exp_loop"
    /\ IF ei <= Len(obset_tree[di][2][fi][2])
       THEN LET filename == obset_tree[di][2][fi][2][ei]
                fires == detection_fires(det_indx, prev_det_indx)
                ftype == IF fires THEN detect_filetype(filename[2]) ELSE filetype
                sep == SEP_STR \o format_02d(sep_indx)
                p1 == Put(obset_products, sep,
                          [info |-> sep_info_of(filename[1], ftype),
                           files |-> <<filename[2]>>])
                p2 == InitInfo(p1, fprod, fp_info_of(filename[1], ftype))
                p3 == AppendFile(p2, fprod, filename[2])
                p4 == InitInfo(p3, tdp, tdp_info_of(filename[1], ftype))
                p5 == AppendFile(p4, tdp, filename[2])
            IN  /\ filetype' = ftype
                /\ prev_det_indx' = IF fires THEN det_indx ELSE prev_det_indx
                /\ obset_products' = p5
                /\ sep_indx' = sep_indx + 1
                /\ ei' = ei + 1
                /\ UNCHANGED << pc, fi >>
       ELSE /\ fi' = fi + 1
            /\ pc' = "filt_loop"
            /\ UNCHANGED << filetype, prev_det_indx, obset_products, sep_indx, ei >>
    /\ UNCHANGED << results, obset_table, error, row_i, obset_tree, det_indx,
                    filt_indx, di, tdp, fprod, product_filenames,
                    generator_vars, filter_vars >>

\* the caller's loop: run_generator on every entry of the returned mapping
Generate ==
    /\ pc = "parsed"
    /\ product_filenames' =
          [n \in 1..Len(obset_products) |->
              << obset_products[n][1],
                 run_generator(obset_products[n][1], obset_products[n][2].info) >>]
    /\ pc' = "done"
    /\ UNCHANGED << results, obset_table, error, row_i, obset_tree,
                    obset_products, prev_det_indx, det_indx, filt_indx,
                    sep_indx, filetype, di, fi, ei, tdp, fprod,
                    generator_vars, filter_vars >>

Next == Interpret \/ BuildRow \/ ParseDetector \/ ParseFilter \/ ParseExposure
        \/ Generate

Spec == Init /\ [][Next]_vars

\* ------------------------------------------------------------------------
\* run_generator called directly
\* ------------------------------------------------------------------------
InitGen ==
    /\ pc = "gen_start"
    /\ product_category \in Categories
    /\ obs_info \in InfoStrings
    /\ product_filename_dict = NoResult
    /\ results = <<>> /\ PipelineFresh /\ FilterIdle

RunGenerator ==
    /\ pc = "gen_start"
    /\ product_filename_dict' = run_generator(product_category, obs_info)
    /\ pc' = "gen_done"
    /\ UNCHANGED << product_category, obs_info, pipeline_vars, filter_vars >>

NextGen == RunGenerator

SpecGen == InitGen /\ [][NextGen]_vars

\* ------------------------------------------------------------------------
\* determine_filter_name called directly, then on its own result
\* ------------------------------------------------------------------------
InitFilt ==
    /\ pc = "filt_start"
    /\ raw_filter \in RawFilterInputs
    /\ filter_name = <<>> /\ filter_name_again = <<>>
    /\ results = <<>> /\ PipelineFresh /\ GeneratorIdle

Normalize ==
    /\ pc = "filt_start"
    /\ filter_name' = determine_filter_name(raw_filter)
    /\ pc' = "filt_once"
    /\ UNCHANGED << raw_filter, filter_name_again, pipeline_vars, generator_vars >>

NormalizeAgain ==
    /\ pc = "filt_once"
    /\ filter_name_again' = determine_filter_name(filter_name)
    /\ pc' = "filt_twice"
    /\ UNCHANGED << raw_filter, filter_name, pipeline_vars, generator_vars >>

NextFilt == Normalize \/ NormalizeAgain

SpecFilt == InitFilt /\ [][NextFilt]_vars

\* ------------------------------------------------------------------------
\* Vocabulary of the properties
\* ------------------------------------------------------------------------
Range(seq) == { seq[n] : n \in 1..Len(seq) }
Count(seq, x) == Cardinality({ n \in 1..Len(seq) : seq[n] = x })
MinOf(S) == CHOOSE m \in S : \A x \in S : m <= x
TwoDigits(i) == << DigitChars[(i \div 10) + 1], DigitChars[(i % 10) + 1] >>
KeysOf(d) == { d[n][1] : n \in 1..Len(d) }

\* parse_obset_tree has returned
Parsed == pc \in {"parsed", "done"}

RowNumbers == 1..Len(results)
Filenames == { results[k].filename : k \in RowNumbers }
\* the normalized filter of row k
NormalizedOf == [f \in { r.filters : r \in RowKinds } |-> determine_filter_name(f)]
NormFilter(k) == NormalizedOf[results[k].filters]
RowsOfDetector(dt) == { k \in RowNumbers : results[k].detector = dt }
RowsOfGroup(dt, nf) == { k \in RowsOfDetector(dt) : NormFilter(k) = nf }
NumDetectors == Cardinality({ results[k].detector : k \in RowNumbers })
NumGroups == Cardinality({ <<results[k].detector, NormFilter(k)>> : k \in RowNumbers })

\* positions in obset_products of the entries of a category
EntriesOf(prefix) ==
    { n \in 1..Len(obset_products) : startswith(obset_products[n][1], prefix) }
AllEntries == 1..Len(obset_products)
FilesOf(n) == obset_products[n][2].files
InfoOf(n) == obset_products[n][2].info
\* the number written by the two digits that follow the prefix in the key
DigitValue(c) == CHOOSE v \in 0..9 : DigitChars[v + 1] = c
IndexOf(n, prefix) ==
    LET key == obset_products[n][1]
    IN  10 * DigitValue(key[Len(prefix) + 1]) + DigitValue(key[Len(prefix) + 2])
\* the manifest rows whose filename the entry lists
EntryRows(n) == { k \in RowNumbers : results[k].filename \in Range(FilesOf(n)) }
FirstRow(n) == MinOf(EntryRows(n))
\* the last space-separated field of info is ftype (ftype holds no space)
LastFieldIs(info, ftype) == endswith(info, <<" ">> \o ftype)

\* 'drz' when characters 10..12 of the filename, lower-cased, are 'flt'
ExpectedFiletype(fname) ==
    IF Len(fname) >= 13
       /\ << lower_char(fname[11]), lower_char(fname[12]), lower_char(fname[13]) >>
            = <<"f","l","t">>
    THEN <<"d","r","z">> ELSE <<"d","r","c">>

\* ------------------------------------------------------------------------
\* C1: the mapping returned for a manifest of N rows, D detectors and F
\* (detector, normalized filter) pairs has exactly the keys 'total detection
\* product 00'..D-1, 'filter product 00'..F-1 and 'single exposure product
\* 00'..N-1, each once, and no other key.
\* ------------------------------------------------------------------------
C1_ExactKeys ==
    Parsed =>
        /\ KeysOf(obset_products) =
              { TDP_STR \o TwoDigits(i) : i \in 0..(NumDetectors - 1) }
              \cup { FP_STR \o TwoDigits(i) : i \in 0..(NumGroups - 1) }
              \cup { SEP_STR \o TwoDigits(i) : i \in 0..(Len(results) - 1) }
        /\ Len(obset_products) = NumDetectors + NumGroups + Len(results)

\* three rows, two detectors, two raw filter strings of one detector that
\* normalize to the same name
C1_Witness ==
    /\ Parsed
    /\ Len(results) = 3 /\ NumDetectors = 2 /\ NumGroups = 2
    /\ \E a, b \in RowNumbers :
          /\ results[a].detector = results[b].detector
          /\ results[a].filters # results[b].filters
          /\ NormFilter(a) = NormFilter(b)

\* ------------------------------------------------------------------------
\* C2: every row's filename is listed exactly once by exactly one
\* single-exposure entry, exactly once by exactly one filter entry (the one
\* of the row's detector and normalized filter) and exactly once by exactly
\* one total-detection entry (the one of the row's detector); no entry lists
\* a filename that is not in the manifest.
\* ------------------------------------------------------------------------
ListedOnceIn(prefix, fname) ==
    /\ Cardinality({ n \in EntriesOf(prefix) : fname \in Range(FilesOf(n)) }) = 1
    /\ \A n \in EntriesOf(prefix) : Count(FilesOf(n), fname) <= 1

C2_FilesPartition ==
    Parsed =>
        /\ \A k \in RowNumbers :
              LET fname == results[k].filename
              IN  /\ ListedOnceIn(SEP_STR, fname)
                  /\ ListedOnceIn(FP_STR, fname)
                  /\ ListedOnceIn(TDP_STR, fname)
                  /\ \A n \in EntriesOf(SEP_STR) :
                        fname \in Range(FilesOf(n)) => FilesOf(n) = <<fname>>
                  /\ \A n \in EntriesOf(FP_STR) :
                        fname \in Range(FilesOf(n)) =>
                           EntryRows(n) = RowsOfGroup(results[k].detector, NormFilter(k))
                  /\ \A n \in EntriesOf(TDP_STR) :
                        fname \in Range(FilesOf(n)) =>
                           EntryRows(n) = RowsOfDetector(results[k].detector)
        /\ \A n \in AllEntries : Range(FilesOf(n)) \subseteq Filenames

\* a filter entry that accumulated two exposures next to another detector
C2_Witness ==
    /\ Parsed
    /\ NumDetectors = 2
    /\ \E n \in EntriesOf(FP_STR) : Len(FilesOf(n)) = 2

\* ------------------------------------------------------------------------
\* C3 as stated: within each category the indices increase with the first
\* manifest row of the entries, whatever the order of the rows.
\* ------------------------------------------------------------------------
RowOrdered(prefix) ==
    LET first == [n \in EntriesOf(prefix) |-> FirstRow(n)]
        index == [n \in EntriesOf(prefix) |-> IndexOf(n, prefix)]
    IN  \A x, y \in DOMAIN first : first[x] < first[y] => index[x] < index[y]

C3_RowOrder_AsStated ==
    Parsed => RowOrdered(TDP_STR) /\ RowOrdered(FP_STR) /\ RowOrdered(SEP_STR)

\* C3 amended: the indices follow the grouping order.  Total-detection
\* indices increase with the first row of the detector; filter indices
\* increase with the pair (first row of the detector, first row of the
\* detector and filter); single-exposure indices increase with the triple
\* (first row of the detector, first row of the detector and filter, row).
EntryDetector(n) == results[FirstRow(n)].detector
DetRank(n) == MinOf(RowsOfDetector(EntryDetector(n)))
GroupRank(n) ==
    MinOf(RowsOfGroup(EntryDetector(n), NormFilter(FirstRow(n))))
LexLess(a, b) ==
    \E p \in 1..Len(a) : a[p] < b[p] /\ \A q \in 1..(p - 1) : a[q] = b[q]

C3_GroupingOrder ==
    Parsed =>
        LET fpRank == [n \in EntriesOf(FP_STR) |-> <<DetRank(n), FirstRow(n)>>]
            sepRank == [n \in EntriesOf(SEP_STR) |->
                           <<DetRank(n), GroupRank(n), FirstRow(n)>>]
            fpIndex == [n \in EntriesOf(FP_STR) |-> IndexOf(n, FP_STR)]
            sepIndex == [n \in EntriesOf(SEP_STR) |-> IndexOf(n, SEP_STR)]
        IN  /\ RowOrdered(TDP_STR)
            /\ \A x, y \in DOMAIN fpRank :
                  LexLess(fpRank[x], fpRank[y]) => fpIndex[x] < fpIndex[y]
            /\ \A x, y \in DOMAIN sepRank :
                  LexLess(sepRank[x], sepRank[y]) => sepIndex[x] < sepIndex[y]

\* a manifest whose rows interleave two detectors
C3_Witness ==
    /\ Parsed
    /\ Len(results) = 3
    /\ results[1].detector = results[3].detector
    /\ results[1].detector # results[2].detector

\* ------------------------------------------------------------------------
\* C4 as stated: the entries of the first detector carry an empty filetype,
\* the detection being skipped for the first detector.
\* ------------------------------------------------------------------------
\* the entries, already given an info string, whose files are rows of the
\* detector at position d of the grouping structure
EntriesOfDetector(d) ==
    { n \in AllEntries :
         /\ InfoOf(n) # <<>>
         /\ FilesOf(n) # <<>>
         /\ \A k \in EntryRows(n) : results[k].detector = obset_tree[d][1] }
\* the first exposure filename processed for the detector at position d
FirstFilename(d) == obset_tree[d][2][1][2][1][2]

C4_FirstDetectorBlank_AsStated ==
    \A n \in (IF obset_tree = <<>> THEN {} ELSE EntriesOfDetector(1)) :
        LastFieldIs(InfoOf(n), <<>>)

\* C4 amended: the detection is not skipped for the first detector (its
\* counter is already 1 when its first exposure is compared with the
\* previous value 0): every entry of the first detector carries 'drz' when
\* characters 10..12 of the detector's first filename, lower-cased, are
\* 'flt', and 'drc' otherwise, never the empty string.
C4_FirstDetectorDetected ==
    \A n \in (IF obset_tree = <<>> THEN {} ELSE EntriesOfDetector(1)) :
        /\ LastFieldIs(InfoOf(n), ExpectedFiletype(FirstFilename(1)))
        /\ ~LastFieldIs(InfoOf(n), <<>>)

\* the first detector holds an 'flt' exposure first and an 'flc' one later
C4_Witness ==
    /\ Parsed
    /\ Len(obset_tree) >= 1
    /\ ExpectedFiletype(FirstFilename(1)) = <<"d","r","z">>
    /\ \E n \in EntriesOfDetector(1) :
          /\ n \in EntriesOf(SEP_STR)
          /\ ExpectedFiletype(FilesOf(n)[1]) = <<"d","r","c">>
          /\ LastFieldIs(InfoOf(n), <<"d","r","z">>)

\* ------------------------------------------------------------------------
\* C9: for the second and every later detector the filetype is that of the
\* first exposure filename processed for the detector ('drz' when its
\* characters 10..12, lower-cased, are 'flt', else 'drc'); it is the last
\* field of the info string of every entry of the detector, whatever the
\* other filenames of the detector and the filetype of the detector before.
\* ------------------------------------------------------------------------
C9_LaterDetectorFiletype ==
    \A d \in 2..Len(obset_tree) :
        \A n \in EntriesOfDetector(d) :
            LastFieldIs(InfoOf(n), ExpectedFiletype(FirstFilename(d)))

\* a second detector whose filetype differs from the first detector's and
\* from the suffix of one of its own later exposures
C9_Witness ==
    /\ Parsed
    /\ Len(obset_tree) = 2
    /\ ExpectedFiletype(FirstFilename(2)) # ExpectedFiletype(FirstFilename(1))
    /\ \E n \in EntriesOfDetector(2) :
          /\ n \in EntriesOf(SEP_STR)
          /\ ExpectedFiletype(FilesOf(n)[1]) # ExpectedFiletype(FirstFilename(2))

\* ------------------------------------------------------------------------
\* C7 as stated: the call fails with the unrecognized-instrument error
\* whenever any row has a filename whose first character is not a key of
\* the instrument table.
\* ------------------------------------------------------------------------
InstrumentKeys == {"i", "j", "o", "u", "x", "w"}
Unrecognized(k) == results[k].filename[1] \notin InstrumentKeys
FailedUnrecognized ==
    /\ pc = "failed" /\ error = "KeyError"
    /\ obset_products = <<>> /\ product_filenames = <<>>

C7_AnyRow_AsStated ==
    (pc # "start" /\ \E k \in RowNumbers : Unrecognized(k)) => FailedUnrecognized

\* C7 amended: the call fails with the unrecognized-instrument error,
\* returning no product mapping, whenever the first row has a filename
\* whose first character is not a key of the instrument table; the
\* filenames of the later rows are not looked up.
C7_FirstRow ==
    (pc # "start" /\ Len(results) > 0 /\ Unrecognized(1)) => FailedUnrecognized

C7_Witness ==
    /\ Len(results) > 1 /\ Unrecognized(1)
    /\ pc = "failed" /\ error = "KeyError"

\* ------------------------------------------------------------------------
\* C5: given five fields [group_id, instrument, detector, filter, filetype]
\* under a category starting with 'multivisit mosaic product', the call
\* returns, without error, 'image' = 'hst_mos' + group_id + '_' + instrument
\* + '_' + detector + '_' + filter + ' ' + filetype + '.fits' and the two
\* catalogs on the same basename.
\* ------------------------------------------------------------------------
MosaicExpected(f) ==
    LET basename == <<"h","s","t","_","m","o","s">> \o f[1] \o <<"_">> \o f[2]
                    \o <<"_">> \o f[3] \o <<"_">> \o f[4]
    IN  << <<"image", basename \o <<" ">> \o f[5] \o <<".","f","i","t","s">> >>,
           <<"point source catalog", basename \o S_point_cat>>,
           <<"segment source catalog", basename \o S_segment_cat>> >>

C5_MosaicFiveFields ==
    (/\ pc = "gen_done"
     /\ startswith(product_category, S_multivisit_mosaic_product)
     /\ Len(split(obs_info, " ")) = 5)
    => /\ product_filename_dict.status = "ok"
       /\ product_filename_dict.files = MosaicExpected(split(obs_info, " "))

\* ------------------------------------------------------------------------
\* C6: with a category of which no registered phrase is a prefix, the call
\* ends in an error for every info string: no mapping is returned and no
\* filename generator is invoked.
\* ------------------------------------------------------------------------
RegisteredPhrases ==
    { S_single_exposure_product, S_filter_product,
      S_total_detection_product, S_multivisit_mosaic_product }
Unregistered(category) == \A ph \in RegisteredPhrases : ~startswith(category, ph)

C6_UnrecognizedCategory ==
    (pc = "gen_done" /\ Unregistered(product_category))
    => /\ product_filename_dict.status \notin {"ok", "none"}
       /\ product_filename_dict.generator = "none"
       /\ product_filename_dict.files = <<>>

C6_Witness ==
    /\ pc = "gen_done"
    /\ product_category = <<"b","o","g","u","s"," ","p","r","o","d","u","c","t"," ","0","0">>
    /\ Len(split(obs_info, " ")) = 7
    /\ product_filename_dict.status = "UnboundLocalError"

\* ------------------------------------------------------------------------
\* C8: determine_filter_name is idempotent on raw filters of one or two
\* sub-filters joined by ';'.
\* ------------------------------------------------------------------------
C8_Idempotent ==
    pc = "filt_twice" => filter_name_again = filter_name

\* two polarizers, mixed case: the first pass reorders and rejoins
C8_Witness ==
    /\ pc = "filt_twice"
    /\ raw_filter = <<"P","O","L","6","0",";","p","o","l","0">>
    /\ filter_name = <<"p","o","l","0","-","p","o","l","6","0">>

\* ------------------------------------------------------------------------
\* C10 as stated: for every manifest whose detector, normalized filter and
\* filename tokens contain no space and whose filenames contain an
\* underscore, every entry (key, info) of the returned mapping is accepted
\* by run_generator: the generator of the entry's category is selected and
\* the space-split info has the fields that generator reads, lower-case.
\* ------------------------------------------------------------------------
Rootname(fname) == SubSeq(fname, 1, find(fname, "_"))
NoSpace(tok) == \A p \in 1..Len(tok) : tok[p] # " "
TokensWithoutSpace ==
    \A k \in RowNumbers :
        /\ NoSpace(results[k].detector) /\ NoSpace(NormFilter(k))
        /\ NoSpace(results[k].filename)
        /\ \E p \in 1..Len(results[k].filename) : results[k].filename[p] = "_"
TokensNonEmpty ==
    \A k \in RowNumbers :
        /\ results[k].detector # <<>> /\ NormFilter(k) # <<>>
        /\ Rootname(results[k].filename) # <<>>

\* entry n of the mapping, once handed to run_generator, was accepted
Accepted(n) ==
    LET key == product_filenames[n][1]
        res == product_filenames[n][2]
        info == InfoOf(n)
        f == split(info, " ")
        row == results[FirstRow(n)]
    IN  /\ obset_products[n][1] = key
        /\ res.status = "ok"
        /\ info = lower(info)
        /\ IF startswith(key, SEP_STR) \/ startswith(key, FP_STR)
           THEN /\ res.generator =
                     (IF startswith(key, SEP_STR) THEN "single_exposure" ELSE "filter")
                /\ Len(f) = 7
                /\ f[4] = lower(row.detector)
                /\ f[5] = NormFilter(FirstRow(n))
                /\ f[6] = lower(Rootname(row.filename))
                /\ f[7] \in { <<"d","r","z">>, <<"d","r","c">> }
           ELSE /\ startswith(key, TDP_STR)
                /\ res.generator = "total_detection"
                /\ Len(f) = 6
                /\ f[4] = lower(row.detector)
                /\ f[5] = lower(Rootname(row.filename))
                /\ f[6] \in { <<"d","r","z">>, <<"d","r","c">> }

====
